---- MODULE Spec2Model ----
(***************************************************************************)
(* InfinityConnectionPool (common/doc_store/infinity_conn_pool.py): the    *)
(* process-wide manager of one ConnectionPool handle.  The constructor     *)
(* resolves the address, then tries up to 24 rounds to build a pool whose  *)
(* health probe succeeds; refresh_conn_pool() probes the stored pool and   *)
(* rebuilds it when the probe fails; __del__ destroys the stored pool.     *)
(*                                                                         *)
(* Pools are numbered in the order ConnectionPool(...) returned them:      *)
(* pools[i] is the i-th pool ever constructed.  A call of the external     *)
(* library (ConnectionPool(...), get_conn(), show_current_node(),          *)
(* destroy()) may return or raise; which one happens is the environment's  *)
(* choice.                                                                 *)
(***************************************************************************)
EXTENDS Integers, Sequences, FiniteSets, TLC

VARIABLES
    pc,          \* where the manager is: "init", "ready", "failed", "deleted"
    round,       \* rounds of the constructor's retry loop started so far
    res,         \* the constructor's local `res`: the last probe result
    infinity_uri,\* self.infinity_uri: the resolved address
    conn_pool,   \* self.conn_pool: a pool number, or Unset (no attribute)
    pools,       \* every pool constructed: [uri, max_size, destroyed]
    borrowed,    \* pool number -> connections the manager took from it and
                 \* has not released, for the pools that were ever stored
    sleeps,      \* the durations passed to time.sleep, in order
    log,         \* the logging calls, in order: [level, at]
    last,        \* the latest call: [op, before, probe, rebuild, ret, raised]
    nCalls,      \* refresh_conn_pool() calls made so far
    thr,         \* per thread inside refresh_conn_pool(): its position and
                 \* the pools it probed, destroyed, built, stored, returned
    once,        \* the singleton accessor: its state and the constructor runs
    callers,     \* per caller of InfinityConnectionPool(): its position
    config_uri   \* self.INFINITY_CONFIG["uri"], a sequence of characters
                 \* (thr moves only in SpecRace, once and callers only in
                 \* SpecOnce)

vars == <<pc, round, res, infinity_uri, conn_pool, pools, borrowed, sleeps,
          log, last, nCalls, thr, once, callers, config_uri>>

\* what the calls of a single caller on a constructed manager leave alone
others == <<thr, once, callers, config_uri>>

----------------------------------------------------------------------------
(* Program constants *)

Rounds == 24
Backoff == 5
InitSize == 4
RefreshSize == 32
DefaultPort == 23817

\* self.conn_pool before any assignment: the attribute does not exist.
Unset == 0
\* A call that returned nothing (or did not return).
None == 0

(* Bounds of the model *)

\* refresh_conn_pool() calls in one behaviour
MaxRefresh == 3
\* pools left behind by failed constructor rounds in the start states of the
\* refresh specifications
MaxAbandoned == 1
\* threads inside refresh_conn_pool() at once, callers of the accessor
NThreads == 2
NCallers == 2
\* characters of a configured uri
MaxLen == 7

----------------------------------------------------------------------------
(* The environment: what the external client library may answer *)

ErrorCodes == {"OK", "ERR"}
ServerStatuses == {"started", "alive", "stopped"}
Results == [error_code : ErrorCodes, server_status : ServerStatuses]
NoResult == [error_code |-> "none", server_status |-> "none"]

\* a round (or a refresh probe) ends in one of these ways
Outcomes == {"ctor_raises", "get_conn_raises", "probe_raises", "returns"}

Threads == 1..NThreads
Callers == 1..NCallers

\* a thread that is not inside refresh_conn_pool()
Idle == [pc |-> "idle", probed |-> None, killed |-> None, new |-> None,
         stored |-> None, ret |-> None]

----------------------------------------------------------------------------
(* Helpers *)

Entry(level, at) == [level |-> level, at |-> at]

\* The record of a call: the handle stored before it, what its probe and its
\* rebuild met in the library, what it returned and what it raised.
Call(op, before, probe, rebuild, ret, raised) ==
    [op |-> op, before |-> before, probe |-> probe, rebuild |-> rebuild,
     ret |-> ret, raised |-> raised]

\* the probe of a call whose get_conn() or show_current_node() raised
Raised(o) == [error_code |-> "raised", server_status |-> o]

\* mutants of the success condition: the state alive is forgotten; the
\* state is not looked at
HealthyStartedOnly(r) == r.error_code = "OK" /\ r.server_status = "started"
HealthyCodeOnly(r) == r.error_code = "OK"

\* lines 75 and 97: the success condition of the probe
Healthy(r) == r.error_code = "OK" /\ r.server_status \in {"started", "alive"}

\* ConnectionPool(self.infinity_uri, max_size=size)
NewPool(uri, size) == [uri |-> uri, max_size |-> size, destroyed |-> 0]

\* pool.destroy(): one more destroy() call on pool p
Destroy(ps, p) == [ps EXCEPT ![p].destroyed = @ + 1]

\* pool.get_conn() and pool.release_conn(conn), counted per pool
Borrow(b, p) == [b EXCEPT ![p] = @ + 1]
Release(b, p) == [b EXCEPT ![p] = @ - 1]

\* a pool stored for the first time has no connection out
Kept(b, cp) == IF cp \in DOMAIN b THEN b ELSE b @@ (cp :> 0)

\* mutant: the break is missing
NoBreak(ok) == FALSE

\* line 78: a round that succeeded breaks out of the loop
Breaks(ok) == ok

\* lines 79-81: an exception inside the round's try block
Raises(o) == o \in {"ctor_raises", "get_conn_raises", "probe_raises"}

\* lines 79-81: what the except clause of a round adds
RoundSleeps(o) == IF Raises(o) THEN <<Backoff>> ELSE <<>>
RoundLog(o) == IF Raises(o) THEN <<Entry("warning", "waiting")>> ELSE <<>>

\* mutant: range(23)
MoreRoundsShort(n) == n < Rounds - 1

\* line 70: the loop goes on while rounds are left and no round has broken out
MoreRounds(n) == n < Rounds

\* lines 83-88, after the loop.  self.conn_pool is assigned only at line 76,
\* so after 24 failed rounds the attribute does not exist and reading it at
\* line 83 raises AttributeError before lines 84-86 run.
AfterLoop(cp) ==
    IF cp = Unset
    THEN [raised |-> "AttributeError", log |-> <<>>, pc |-> "failed"]
    ELSE [raised |-> "none", log |-> <<Entry("info", "healthy")>>, pc |-> "ready"]

----------------------------------------------------------------------------
(* Address parsing, lines 36-68.  A string is a sequence of one-character   *)
(* strings.                                                                *)

SchemeSep == <<":", "/", "/">>
Colon == <<":">>
DefaultHost == <<"1", "2", "7", ".", "0", ".", "0", ".", "1">>
DefaultAddress == [host |-> DefaultHost, port |-> DefaultPort]

\* line 34: the uri of the built-in configuration, "infinity:23817"
DefaultURI ==
    <<"i", "n", "f", "i", "n", "i", "t", "y", ":", "2", "3", "8", "1", "7">>

\* sep occurs in s at position i
At(s, sep, i) ==
    /\ i >= 1
    /\ i + Len(sep) - 1 <= Len(s)
    /\ SubSeq(s, i, i + Len(sep) - 1) = sep

\* `sep in s`
Contains(s, sep) == \E i \in 1..Len(s) : At(s, sep, i)

\* s.split(sep): the pieces between the occurrences of sep, found from the
\* left; i scans, start is where the current piece began
RECURSIVE SplitFrom(_, _, _, _)
SplitFrom(s, sep, i, start) ==
    IF i + Len(sep) - 1 > Len(s)
    THEN <<SubSeq(s, start, Len(s))>>
    ELSE IF At(s, sep, i)
         THEN <<SubSeq(s, start, i - 1)>>
                \o SplitFrom(s, sep, i + Len(sep), i + Len(sep))
         ELSE SplitFrom(s, sep, i + 1, start)

Split(s, sep) == SplitFrom(s, sep, 1, 1)

\* s.rstrip("/")
RECURSIVE RStrip(_)
RStrip(s) ==
    IF Len(s) > 0 /\ s[Len(s)] = "/"
    THEN RStrip(SubSeq(s, 1, Len(s) - 1))
    ELSE s

\* int(s), for strings of the characters the model draws: it raises
\* ValueError unless s is a non-empty run of decimal digits
DigitVal ==
    [d \in {"0", "1", "2", "3", "4", "5", "6", "7", "8", "9"} |->
        CASE d = "0" -> 0 [] d = "1" -> 1 [] d = "2" -> 2 [] d = "3" -> 3
          [] d = "4" -> 4 [] d = "5" -> 5 [] d = "6" -> 6 [] d = "7" -> 7
          [] d = "8" -> 8 [] d = "9" -> 9]

\* int() of a string over the characters of URIs: it has no sign, blank or
\* underscore, so int() accepts exactly the non-empty digit strings
IntRaises(s) == s = <<>> \/ \E i \in 1..Len(s) : s[i] \notin DOMAIN DigitVal

RECURSIVE IntOf(_)
IntOf(s) ==
    IF s = <<>> THEN 0
    ELSE 10 * IntOf(SubSeq(s, 1, Len(s) - 1)) + DigitVal[s[Len(s)]]

\* mutant: split("://")[1], the piece after the first separator
StripSchemeSecond(u) ==
    IF Contains(u, SchemeSep) THEN Split(u, SchemeSep)[2] ELSE u

\* lines 44-46: strip the protocol
StripScheme(u) ==
    IF Contains(u, SchemeSep)
    THEN LET parts == Split(u, SchemeSep) IN parts[Len(parts)]
    ELSE u

\* mutant: the trailing slashes stay
CleanURIUnstripped(u) == StripScheme(u)

\* lines 44-49: clean_uri
CleanURI(u) == RStrip(StripScheme(u))

\* what the parsing leaves: the address stored, the log entries made, and
\* the exception that left the constructor (none: line 66 catches them all)
Parsed(addr, entries) == [addr |-> addr, log |-> entries, raised |-> "none"]

\* lines 66-68: the except clause
ParseFailed(entries) ==
    Parsed(DefaultAddress, entries \o <<Entry("error", "parse")>>)

\* mutant: the host unpacked at line 54 survives the failure of line 55
TwoPartsKeepsHost(parts) ==
    IF IntRaises(parts[2])
    THEN Parsed([host |-> parts[1], port |-> DefaultPort],
                <<Entry("error", "parse")>>)
    ELSE Parsed([host |-> parts[1], port |-> IntOf(parts[2])], <<>>)

\* lines 53-55: exactly two parts
TwoParts(parts) ==
    IF IntRaises(parts[2]) THEN ParseFailed(<<>>)
    ELSE Parsed([host |-> parts[1], port |-> IntOf(parts[2])], <<>>)

\* mutant: the first part is taken as the host
ManyPartsFirstHost(parts) ==
    LET n == Len(parts)
        warned == <<Entry("warning", "format")>>
    IN  IF IntRaises(parts[n]) THEN ParseFailed(warned)
        ELSE Parsed([host |-> parts[1], port |-> IntOf(parts[n])], warned)

\* lines 56-60: more than two parts
ManyParts(parts) ==
    LET n == Len(parts)
        warned == <<Entry("warning", "format")>>
    IN  IF IntRaises(parts[n]) THEN ParseFailed(warned)
        ELSE Parsed([host |-> parts[n - 1], port |-> IntOf(parts[n])], warned)

\* mutant: line 63 is missing, the host stays the default
HostOnlyDefault(c) == Parsed(DefaultAddress, <<>>)

\* lines 61-63: no colon
HostOnly(c) == Parsed([host |-> c, port |-> DefaultPort], <<>>)

\* lines 39-68
ParseAddress(u) ==
    LET c == CleanURI(u) IN
    IF Contains(c, Colon)
    THEN LET parts == Split(c, Colon) IN
         IF Len(parts) = 2 THEN TwoParts(parts) ELSE ManyParts(parts)
    ELSE HostOnly(c)

\* the configurations of the behaviours that start after the parsing:
\* the built-in default and the default address written out
SampleURIs == {DefaultURI, DefaultHost \o Colon \o <<"2", "3", "8", "1", "7">>}

\* the addresses they resolve to
Addresses == {ParseAddress(u).addr : u \in SampleURIs}

\* the constructor has parsed one of them
Configured ==
    \E u \in SampleURIs :
        /\ config_uri = u
        /\ infinity_uri = ParseAddress(u).addr

----------------------------------------------------------------------------
(* The constructor, lines 70-88, one round at a time *)

Init ==
    /\ pc = "init"
    /\ round = 0
    /\ res = NoResult
    /\ Configured
    /\ conn_pool = Unset
    /\ pools = <<>>
    /\ borrowed = <<>>
    /\ sleeps = <<>>
    /\ log = <<>>
    /\ last = Call("__init__", Unset, NoResult, "none", None, "none")
    /\ nCalls = 0
    /\ thr = [t \in Threads |-> Idle]
    /\ once = [state |-> "Constructing", runs |-> 1]
    /\ callers = [c \in Callers |-> "start"]

\* One round of the loop with outcome o (and probe result r when the probe
\* returns); the statements after the loop run with the round that ends it.
RoundStep(o, r) ==
    LET built == o # "ctor_raises"
        pools1 == IF built THEN Append(pools, NewPool(infinity_uri, InitSize))
                  ELSE pools
        id == Len(pools1)
        ok == o = "returns" /\ Healthy(r)
        cp == IF ok THEN id ELSE conn_pool
        over == Breaks(ok) \/ ~MoreRounds(round + 1)
        after == AfterLoop(cp)
    IN  /\ pools' = pools1
        /\ round' = round + 1
        /\ res' = IF o = "returns" THEN r ELSE res
        /\ conn_pool' = cp
           \* line 73 borrows, line 77 releases; a failed round drops its pool
        /\ borrowed' = IF ok THEN Release(Borrow(Kept(borrowed, id), id), id)
                       ELSE borrowed
        /\ sleeps' = sleeps \o RoundSleeps(o)
        /\ log' = log \o RoundLog(o) \o (IF over THEN after.log ELSE <<>>)
        /\ pc' = IF over THEN after.pc ELSE "init"
        /\ last' = Call("__init__", Unset, NoResult, "none", None,
                        IF over THEN after.raised ELSE "none")
        /\ UNCHANGED <<infinity_uri, nCalls, others>>

InitRound ==
    /\ pc = "init"
    /\ MoreRounds(round)
    /\ \/ \E o \in Outcomes \ {"returns"} : RoundStep(o, NoResult)
       \/ \E r \in Results : RoundStep("returns", r)

----------------------------------------------------------------------------
(* get_conn_pool(), lines 90-91 *)

\* mutant: the getter borrows a connection to validate the pool
get_conn_pool_borrowing ==
    /\ pc = "ready"
    /\ borrowed' = Borrow(borrowed, conn_pool)
    /\ last' = Call("get_conn_pool", conn_pool, NoResult, "none", conn_pool,
                    "none")
    /\ UNCHANGED <<pc, round, res, infinity_uri, conn_pool, pools, sleeps, log,
                   nCalls, others>>

get_conn_pool ==
    /\ pc = "ready"
    /\ last' = Call("get_conn_pool", conn_pool, NoResult, "none", conn_pool,
                    "none")
    /\ UNCHANGED <<pc, round, res, infinity_uri, conn_pool, pools, borrowed,
                   sleeps, log, nCalls, others>>

----------------------------------------------------------------------------
(* __del__, lines 109-111.  It also runs for a manager whose constructor    *)
(* raised.                                                                 *)

\* mutant: the stored pool is not destroyed
DelPoolsNever(cp, ps) == ps

DelPools(cp, ps) == IF cp # Unset THEN Destroy(ps, cp) ELSE ps

Del ==
    /\ pc \in {"ready", "failed"}
    /\ pools' = DelPools(conn_pool, pools)
    /\ pc' = "deleted"
    /\ last' = Call("__del__", conn_pool, NoResult, "none", None, "none")
    /\ UNCHANGED <<round, res, infinity_uri, conn_pool, borrowed, sleeps, log,
                   nCalls, others>>

Next == InitRound \/ get_conn_pool \/ Del

Spec == Init /\ [][Next]_vars

----------------------------------------------------------------------------
(* refresh_conn_pool(), lines 93-107, as one call *)

\* what the rebuild of lines 104-107 may meet in the library
Rebuilds == {"destroy_raises", "ctor_raises", "built"}

\* a probe of the stored pool: get_conn() raises, show_current_node() raises,
\* or the probe returns a result
Probes == {Raised(o) : o \in {"get_conn_raises", "probe_raises"}} \cup Results

\* lines 97-100: the probe lets the call return the stored pool
ProbeOk(p) == p \in Results /\ Healthy(p)

\* line 95: get_conn() returned a connection, which no path of the call
\* releases
ProbeBorrows(p) == p # Raised("get_conn_raises")

\* mutant: a failed construction of the replacement is swallowed and the old
\* handle returned
RebuildFallsBack(d, cp, ps, uri) ==
    IF cp = Unset
    THEN [pools |-> ps, conn_pool |-> cp, ret |-> None, raised |-> "none"]
    ELSE CASE d = "destroy_raises" ->
                [pools |-> Destroy(ps, cp), conn_pool |-> cp, ret |-> None,
                 raised |-> "destroy"]
           [] d = "ctor_raises" ->
                [pools |-> Destroy(ps, cp), conn_pool |-> cp, ret |-> cp,
                 raised |-> "none"]
           [] d = "built" ->
                [pools |-> Append(Destroy(ps, cp), NewPool(uri, RefreshSize)),
                 conn_pool |-> Len(ps) + 1, ret |-> Len(ps) + 1,
                 raised |-> "none"]

\* lines 102-107, the except clause, for stored handle cp and pools ps: the
\* handle is destroyed, then a new pool is constructed and stored.  An
\* exception of destroy() or of ConnectionPool(...) leaves the handler.
Rebuild(d, cp, ps, uri) ==
    IF cp = Unset
    THEN [pools |-> ps, conn_pool |-> cp, ret |-> None, raised |-> "none"]
    ELSE CASE d = "destroy_raises" ->
                [pools |-> Destroy(ps, cp), conn_pool |-> cp, ret |-> None,
                 raised |-> "destroy"]
           [] d = "ctor_raises" ->
                [pools |-> Destroy(ps, cp), conn_pool |-> cp, ret |-> None,
                 raised |-> "ConnectionPool"]
           [] d = "built" ->
                [pools |-> Append(Destroy(ps, cp), NewPool(uri, RefreshSize)),
                 conn_pool |-> Len(ps) + 1, ret |-> Len(ps) + 1,
                 raised |-> "none"]

RefreshKeep(p) ==
    /\ borrowed' = IF ProbeBorrows(p) THEN Borrow(borrowed, conn_pool)
                   ELSE borrowed
    /\ last' = Call("refresh_conn_pool", conn_pool, p, "none", conn_pool,
                    "none")
    /\ UNCHANGED <<conn_pool, pools, log>>

RefreshRebuild(p, d) ==
    LET out == Rebuild(d, conn_pool, pools, infinity_uri)
        b1 == IF ProbeBorrows(p) THEN Borrow(borrowed, conn_pool)
              ELSE borrowed
    IN  /\ log' = Append(log, Entry("error", "refresh"))
        /\ pools' = out.pools
        /\ conn_pool' = out.conn_pool
        /\ borrowed' = Kept(b1, out.conn_pool)
        /\ last' = Call("refresh_conn_pool", conn_pool, p, d, out.ret,
                        out.raised)

refresh_conn_pool ==
    /\ pc = "ready"
    /\ nCalls < MaxRefresh
    /\ nCalls' = nCalls + 1
    /\ \E p \in Probes :
          IF ProbeOk(p) THEN RefreshKeep(p)
          ELSE \E d \in Rebuilds : RefreshRebuild(p, d)
    /\ UNCHANGED <<pc, round, res, infinity_uri, sleeps, others>>

\* The manager as the constructor leaves it when round a+1 is the first to
\* succeed and the a rounds before it returned an unhealthy probe result.
Constructed(a, r) ==
    /\ pc = "ready"
    /\ round = a + 1
    /\ res = r
    /\ conn_pool = a + 1
    /\ pools = [i \in 1..(a + 1) |-> NewPool(infinity_uri, InitSize)]
    /\ borrowed = ((a + 1) :> 0)
    /\ sleeps = <<>>
    /\ log = <<Entry("info", "healthy")>>
    /\ last = Call("__init__", Unset, NoResult, "none", None, "none")
    /\ nCalls = 0
    /\ thr = [t \in Threads |-> Idle]
    /\ once = [state |-> "Constructing", runs |-> 1]
    /\ callers = [c \in Callers |-> "start"]

InitRefresh ==
    /\ Configured
    /\ \E a \in 0..MaxAbandoned : \E r \in {x \in Results : Healthy(x)} :
          Constructed(a, r)

NextRefresh == refresh_conn_pool \/ get_conn_pool \/ Del

SpecRefresh == InitRefresh /\ [][NextRefresh]_vars

\* every start state of SpecRefresh is a state the constructor reaches
StartReachable == ~(InitRefresh /\ round = MaxAbandoned + 1)

----------------------------------------------------------------------------
(* refresh_conn_pool() called from several threads.  The method takes no    *)
(* lock, so the threads interleave between its statements: each read of    *)
(* self.conn_pool sees whatever was stored last.  Here the library calls   *)
(* of the rebuild return normally.                                         *)

Step(t, new) == thr' = [thr EXCEPT ![t] = new]

\* lines 95-97: borrow from the stored pool and probe it
r_probe(t) ==
    /\ thr[t].pc = "idle"
    /\ nCalls < MaxRefresh
    /\ nCalls' = nCalls + 1
    /\ \E p \in Probes :
          /\ borrowed' = IF ProbeBorrows(p) THEN Borrow(borrowed, conn_pool)
                         ELSE borrowed
          /\ Step(t, [Idle EXCEPT !.probed = conn_pool,
                         !.pc = IF ProbeOk(p) THEN "return" ELSE "except"])
    /\ UNCHANGED <<pc, round, res, infinity_uri, conn_pool, pools, sleeps,
                   log, last, once, callers, config_uri>>

\* lines 103-105: log, then destroy the pool that is stored now
r_destroy(t) ==
    /\ thr[t].pc = "except"
    /\ log' = Append(log, Entry("error", "refresh"))
    /\ pools' = Destroy(pools, conn_pool)
    /\ Step(t, [thr[t] EXCEPT !.killed = conn_pool, !.pc = "construct"])
    /\ UNCHANGED <<pc, round, res, infinity_uri, conn_pool, borrowed, sleeps,
                   last, nCalls, once, callers, config_uri>>

\* line 106, right-hand side: ConnectionPool(self.infinity_uri, max_size=32)
r_construct(t) ==
    /\ thr[t].pc = "construct"
    /\ pools' = Append(pools, NewPool(infinity_uri, RefreshSize))
    /\ Step(t, [thr[t] EXCEPT !.new = Len(pools) + 1, !.pc = "assign"])
    /\ UNCHANGED <<pc, round, res, infinity_uri, conn_pool, borrowed, sleeps,
                   log, last, nCalls, once, callers, config_uri>>

\* line 106, the assignment to self.conn_pool
r_assign(t) ==
    /\ thr[t].pc = "assign"
    /\ conn_pool' = thr[t].new
    /\ borrowed' = Kept(borrowed, thr[t].new)
    /\ Step(t, [thr[t] EXCEPT !.stored = thr[t].new, !.pc = "return"])
    /\ UNCHANGED <<pc, round, res, infinity_uri, pools, sleeps, log, last,
                   nCalls, once, callers, config_uri>>

\* lines 98 and 107: return self.conn_pool
r_return(t) ==
    /\ thr[t].pc = "return"
    /\ Step(t, [thr[t] EXCEPT !.ret = conn_pool, !.pc = "idle"])
    /\ UNCHANGED <<pc, round, res, infinity_uri, conn_pool, pools, borrowed,
                   sleeps, log, last, nCalls, once, callers, config_uri>>

InitRace ==
    /\ Configured
    /\ \E r \in {x \in Results : Healthy(x)} : Constructed(0, r)

NextRace ==
    \E t \in Threads :
        r_probe(t) \/ r_destroy(t) \/ r_construct(t) \/ r_assign(t)
            \/ r_return(t)

SpecRace == InitRace /\ [][NextRace]_vars

\* no thread is inside refresh_conn_pool()
Quiescent == \A t \in Threads : thr[t].pc = "idle"

----------------------------------------------------------------------------
(* The singleton accessor InfinityConnectionPool(), called by several       *)
(* callers before the first construction has completed.  The decorator is  *)
(* common.decorator.singleton; its once-only discipline is taken from the  *)
(* specification: Uninitialized -> Constructing -> Healthy, or, when the   *)
(* constructor raises, a terminal failure.  The constructor it runs is     *)
(* InitRound above.                                                        *)

\* mutant: no once-only guard, every caller constructs
EnterUnguarded(o) == [state |-> "Constructing", runs |-> o.runs + 1]

\* the first caller to find the accessor Uninitialized starts the only run
Enter(o) ==
    IF o.state = "Uninitialized"
    THEN [state |-> "Constructing", runs |-> o.runs + 1]
    ELSE o

access(c) ==
    /\ callers[c] = "start"
    /\ once' = Enter(once)
    /\ IF once'.runs > once.runs
       THEN /\ callers' = [callers EXCEPT ![c] = "constructing"]
            /\ pc' = "init"
            /\ round' = 0
            /\ res' = NoResult
            /\ conn_pool' = Unset
       ELSE /\ callers' = [callers EXCEPT ![c] = "waiting"]
            /\ UNCHANGED <<pc, round, res, conn_pool>>
    /\ UNCHANGED <<infinity_uri, pools, borrowed, sleeps, log, last, nCalls,
                   thr, config_uri>>

\* the constructor returned or raised: the accessor records which
finish(c) ==
    /\ callers[c] = "constructing"
    /\ pc \in {"ready", "failed"}
    /\ once.state = "Constructing"
    /\ once' = [once EXCEPT !.state = IF pc = "ready" THEN "Healthy"
                                      ELSE "Failed"]
    /\ callers' = [callers EXCEPT ![c] = IF pc = "ready" THEN "got"
                                         ELSE "error"]
    /\ UNCHANGED <<pc, round, res, infinity_uri, conn_pool, pools, borrowed,
                   sleeps, log, last, nCalls, thr, config_uri>>

\* a caller that found the construction under way gets its outcome
obtain(c) ==
    /\ callers[c] = "waiting"
    /\ once.state \in {"Healthy", "Failed"}
    /\ callers' = [callers EXCEPT ![c] = IF once.state = "Healthy" THEN "got"
                                         ELSE "error"]
    /\ UNCHANGED <<pc, round, res, infinity_uri, conn_pool, pools, borrowed,
                   sleeps, log, last, nCalls, thr, once, config_uri>>

InitOnce ==
    /\ pc = "none"
    /\ round = 0
    /\ res = NoResult
    /\ Configured
    /\ conn_pool = Unset
    /\ pools = <<>>
    /\ borrowed = <<>>
    /\ sleeps = <<>>
    /\ log = <<>>
    /\ last = Call("__init__", Unset, NoResult, "none", None, "none")
    /\ nCalls = 0
    /\ thr = [t \in Threads |-> Idle]
    /\ once = [state |-> "Uninitialized", runs |-> 0]
    /\ callers = [c \in Callers |-> "start"]

NextOnce ==
    \/ InitRound
    \/ \E c \in Callers : access(c) \/ finish(c) \/ obtain(c)

SpecOnce == InitOnce /\ [][NextOnce]_vars

----------------------------------------------------------------------------
(* The address parsing of the constructor, lines 36-68, for every           *)
(* configured uri of up to MaxLen characters; it ends at the first round   *)
(* of the retry loop.                                                      *)

Chars == {"h", "1", ":", "/"}
URIs == UNION {[1..n -> Chars] : n \in 0..MaxLen}

parse_uri ==
    /\ pc = "parse"
    /\ LET out == ParseAddress(config_uri) IN
          /\ infinity_uri' = out.addr
          /\ log' = log \o out.log
          /\ last' = Call("__init__", Unset, NoResult, "none", None,
                          out.raised)
    /\ pc' = "init"
    /\ UNCHANGED <<round, res, conn_pool, pools, borrowed, sleeps, nCalls,
                   others>>

InitParse ==
    /\ pc = "parse"
    /\ config_uri \in URIs
    /\ round = 0
    /\ res = NoResult
    /\ infinity_uri = DefaultAddress
    /\ conn_pool = Unset
    /\ pools = <<>>
    /\ borrowed = <<>>
    /\ sleeps = <<>>
    /\ log = <<>>
    /\ last = Call("__init__", Unset, NoResult, "none", None, "none")
    /\ nCalls = 0
    /\ thr = [t \in Threads |-> Idle]
    /\ once = [state |-> "Constructing", runs |-> 1]
    /\ callers = [c \in Callers |-> "start"]

NextParse == parse_uri

SpecParse == InitParse /\ [][NextParse]_vars

----------------------------------------------------------------------------
(* The claims *)

\* the health condition, written out
Started(r) ==
    /\ r \in Results
    /\ r.error_code = "OK"
    /\ r.server_status \in {"started", "alive"}

\* a refresh_conn_pool() call has just been made
Refreshed == nCalls' = nCalls + 1 /\ last'.op = "refresh_conn_pool"

\* C1 (as claimed): after a refresh_conn_pool() call whose probe failed and
\* which returned, the returned handle differs from the one stored before,
\* the one stored before has had destroy() called exactly once, the returned
\* pool was built against the resolved address with max_size 32, and it is
\* the stored handle.
C1_RefreshRebuildsOnce ==
    (last.op = "refresh_conn_pool" /\ ~Started(last.probe)
        /\ last.raised = "none")
    => /\ last.ret # last.before
       /\ pools[last.before].destroyed = 1
       /\ pools[last.ret].uri = infinity_uri
       /\ pools[last.ret].max_size = 32
       /\ conn_pool = last.ret

\* C2: a refresh_conn_pool() call whose probe returns OK with state started
\* or alive returns the handle stored before the call, leaves the stored
\* handle as it was, and destroys and constructs no pool.
C2_RefreshHealthyKeepsPool ==
    [][(Refreshed /\ Started(last'.probe))
        => /\ last'.ret = conn_pool
           /\ last'.before = conn_pool
           /\ last'.raised = "none"
           /\ conn_pool' = conn_pool
           /\ pools' = pools]_vars

C2_Witness ==
    /\ last.op = "refresh_conn_pool"
    /\ Started(last.probe)
    /\ last.ret = conn_pool
    /\ pools[conn_pool].destroyed = 0

\* C3 (as claimed): when construction finishes with success in round k,
\* exactly k-1 sleeps of 5 have been recorded.
C3_SleepPerFailedRound ==
    pc = "ready"
    => /\ Len(sleeps) = round - 1
       /\ \A i \in 1..Len(sleeps) : sleeps[i] = 5

C5_ExhaustionRaises ==
    /\ pc = "failed"
       => /\ round = 24
          /\ conn_pool = Unset
          /\ last.op = "__init__"
          /\ last.raised # "none"
    /\ (round = 24 /\ conn_pool = Unset) => pc \in {"failed", "deleted"}
    /\ (round < 24 /\ conn_pool = Unset) => pc = "init"

C5_Witness ==
    /\ pc = "failed"
    /\ round = 24
    /\ last.raised # "none"
    /\ Len(pools) > 0

\* C6 (as claimed): when the constructor fails after 24 rounds, an
\* error-level log entry has been made before the error leaves it.
C6_ErrorLoggedBeforeRaise ==
    pc = "failed" => \E i \in 1..Len(log) : log[i].level = "error"

\* C7: the constructor stores a pool only from a round whose probe returned
\* OK with state started or alive.
C7_StoredOnlyWhenHealthy ==
    conn_pool # Unset => Started(res)

C7_Witness ==
    /\ conn_pool = 3
    /\ round = 3
    /\ res = [error_code |-> "OK", server_status |-> "alive"]
    /\ sleeps = <<>>

\* C8: in refresh_conn_pool(), when the probe has failed and the construction
\* of the replacement pool raises, the exception leaves the call: no handle
\* is returned, no other pool is built, nothing is retried or waited for.
C8_RebuildFailurePropagates ==
    [][(Refreshed /\ last'.rebuild = "ctor_raises")
        => /\ ~Started(last'.probe)
           /\ last'.raised = "ConnectionPool"
           /\ last'.ret = None
           /\ Len(pools') = Len(pools)
           /\ conn_pool' = conn_pool
           /\ sleeps' = sleeps]_vars

C8_Witness ==
    /\ last.op = "refresh_conn_pool"
    /\ last.rebuild = "ctor_raises"
    /\ last.raised = "ConnectionPool"
    /\ ~Started(last.probe)

\* the parts of C9: a thread destroys a pool another thread built and stored
\* only if it had itself probed that pool; no pool has destroy() called
\* twice; with no call under way every pool is the stored handle or destroyed
C9_NoForeignDestroy ==
    \A t, u \in Threads :
        (t # u /\ thr[t].stored # None /\ thr[u].killed = thr[t].stored)
        => thr[u].probed = thr[t].stored

C9_DestroyedOnce == \A p \in 1..Len(pools) : pools[p].destroyed <= 1

C9_NoPoolLeft ==
    Quiescent
    => \A p \in 1..Len(pools) : p = conn_pool \/ pools[p].destroyed >= 1

\* C9 (as claimed): with two threads in refresh_conn_pool() that both saw a
\* failing probe, no thread destroys a pool the other has just built and
\* stored, each pool is destroyed at most once, and every pool constructed
\* is the stored handle or has been destroyed.
C9_ConcurrentRefreshSafe ==
    C9_NoForeignDestroy /\ C9_DestroyedOnce /\ C9_NoPoolLeft

C16_GetterIsPure ==
    [][last'.op = "get_conn_pool"
        => /\ last'.ret = conn_pool
           /\ last'.raised = "none"
           /\ last'.probe = NoResult
           /\ last'.rebuild = "none"
           /\ UNCHANGED <<pc, conn_pool, pools, borrowed, sleeps, log,
                          infinity_uri, nCalls, config_uri>>]_vars

C16_Witness ==
    /\ last.op = "get_conn_pool"
    /\ last.ret = conn_pool
    /\ nCalls >= 1
    /\ pools[conn_pool].max_size = 32

\* C17: on teardown a stored handle has destroy() called on it, once; a
\* manager whose construction stored no handle destroys nothing and raises
\* nothing.
C17_TeardownDestroysStored ==
    [][(pc' = "deleted" /\ pc # "deleted")
        => /\ last'.raised = "none"
           /\ Len(pools') = Len(pools)
           /\ \A p \in 1..Len(pools) :
                 pools'[p].destroyed =
                    pools[p].destroyed + (IF p = conn_pool THEN 1 ELSE 0)
           /\ conn_pool = Unset => pools' = pools]_vars

C17_Witness ==
    /\ pc = "deleted"
    /\ conn_pool = 2
    /\ pools[2].destroyed = 1
    /\ pools[1].destroyed = 0

\* the other case of C17: teardown after a construction that stored nothing
C17_WitnessNoHandle ==
    /\ pc = "deleted"
    /\ conn_pool = Unset
    /\ Len(pools) > 0

\* C18 (as claimed): before teardown the handle get_conn_pool() returns has
\* never had destroy() called on it, and no pool has destroy() called on it
\* more than once.
C18_StoredHandleLive ==
    /\ last.op = "get_conn_pool" => pools[last.ret].destroyed = 0
    /\ \A p \in 1..Len(pools) : pools[p].destroyed <= 1

\* C19 (as claimed): after construction and any number of refresh_conn_pool()
\* calls whose probe succeeded (none has logged an error), no connection the
\* manager borrowed from the stored pool is unreleased.
C19_ProbeConnectionReleased ==
    (pc = "ready" /\ \A i \in 1..Len(log) : log[i].level # "error")
    => borrowed[conn_pool] = 0

\* C20 (as claimed): when construction is over and after every
\* refresh_conn_pool() call, every pool constructed and not destroyed is the
\* stored handle.
C20_OneLivePool ==
    pc = "ready"
    => \A p \in 1..Len(pools) : pools[p].destroyed = 0 => p = conn_pool

----------------------------------------------------------------------------
(* The claims about the address parsing.  The shapes of a uri are stated    *)
(* here by positions in the string, not by the splitting of the parser.    *)

Largest(S) == CHOOSE k \in S : \A j \in S : j <= k
Smallest(S) == CHOOSE k \in S : \A j \in S : k <= j

\* the positions where "://" starts, and where a colon stands
SchemeSeps(s) == {i \in 1..Len(s) : At(s, SchemeSep, i)}
Colons(s) == {i \in 1..Len(s) : s[i] = ":"}

\* what follows the first and the last "://" of s
AfterFirst(s) == SubSeq(s, Smallest(SchemeSeps(s)) + 3, Len(s))
AfterLast(s) == SubSeq(s, Largest(SchemeSeps(s)) + 3, Len(s))

\* s without its trailing slashes
Unslashed(s) ==
    LET ks == {k \in 1..Len(s) : s[k] # "/"}
    IN  IF ks = {} THEN <<>> ELSE SubSeq(s, 1, Largest(ks))

\* the scheme-stripped, slash-stripped remainder of a uri
Remainder(u) == Unslashed(IF SchemeSeps(u) = {} THEN u ELSE AfterLast(u))

\* a decimal integer: one digit or more
IsDecimal(s) == s # <<>> /\ \A i \in 1..Len(s) : s[i] \in DOMAIN DigitVal

\* the last colon-delimited segment of s and the one before it
LastSegment(s) == SubSeq(s, Largest(Colons(s)) + 1, Len(s))
SecondToLast(s) ==
    LET j == Largest(Colons(s))
        before == {i \in Colons(s) : i < j}
    IN  SubSeq(s, (IF before = {} THEN 0 ELSE Largest(before)) + 1, j - 1)

HasLevel(level) == \E i \in 1..Len(log) : log[i].level = level

\* u is [scheme "://"] host ":" port "/"*: the scheme prefix ends at a, the
\* colon stands at b, the port ends at c
HostPortForm(u, a, b, c) ==
    /\ a < b /\ b < c /\ c <= Len(u)
    /\ a = 0 \/ (a >= 3 /\ At(u, SchemeSep, a - 2))
    /\ u[b] = ":"
    /\ \A i \in (a + 1)..(b - 1) : u[i] # ":"
    /\ \A i \in (b + 1)..c : u[i] \in DOMAIN DigitVal
    /\ \A i \in (c + 1)..Len(u) : u[i] = "/"

\* C11: a uri scheme://host:port/, with or without the scheme prefix, with
\* any number of trailing slashes, a host without colon and a decimal port,
\* resolves to that host and that port as an integer.
C11_HostPortParsed ==
    pc = "init"
    => \A a, b, c \in 0..Len(config_uri) :
          HostPortForm(config_uri, a, b, c)
          => infinity_uri = [host |-> SubSeq(config_uri, a + 1, b - 1),
                             port |-> IntOf(SubSeq(config_uri, b + 1, c))]

C11_Witness ==
    /\ pc = "init"
    /\ config_uri = <<":", "/", "/", "h", ":", "1", "/">>
    /\ infinity_uri = [host |-> <<"h">>, port |-> 1]

\* C12 (as claimed): for a uri that contains "://", the text passed on to
\* the slash stripping is everything after the first "://".
C12_KeepsAfterFirst ==
    (pc = "init" /\ SchemeSeps(config_uri) # {})
    => StripScheme(config_uri) = AfterFirst(config_uri)

\* C12 (amended): for a uri that contains "://", the text passed on to the
\* slash stripping is everything after the last "://".
C12_KeepsAfterLast ==
    (pc = "init" /\ SchemeSeps(config_uri) # {})
    => /\ StripScheme(config_uri) = AfterLast(config_uri)
       /\ ParseAddress(AfterLast(config_uri)).addr = infinity_uri

C12_Witness ==
    /\ pc = "init"
    /\ config_uri = <<":", "/", "/", ":", "/", "/", "h">>
    /\ infinity_uri = [host |-> <<"h">>, port |-> 23817]

\* C13: when the remainder has more than one colon and its last segment is
\* a decimal integer, the host is the second-to-last segment, the port the
\* last, a warning is logged and the default address is not fallen back to.
C13_ManyColons ==
    LET c == Remainder(config_uri) IN
    (pc = "init" /\ Cardinality(Colons(c)) > 1 /\ IsDecimal(LastSegment(c)))
    => /\ infinity_uri = [host |-> SecondToLast(c),
                          port |-> IntOf(LastSegment(c))]
       /\ HasLevel("warning")
       /\ ~HasLevel("error")

C13_Witness ==
    /\ pc = "init"
    /\ config_uri = <<"h", ":", "1", "h", ":", "1", "1">>
    /\ infinity_uri = [host |-> <<"1", "h">>, port |-> 11]
    /\ HasLevel("warning")

\* the parsing raises: int() is given a segment that is no decimal integer
ParsingRaises(u) ==
    LET c == Remainder(u) IN
    Colons(c) # {} /\ ~IsDecimal(LastSegment(c))

\* C14: when the parsing raises, the address is 127.0.0.1:23817 and no
\* parsed host is kept, an error is logged, nothing is raised to the
\* caller, and the constructor stands at the first round of the retry loop.
C14_ParseFailureDefaults ==
    (pc = "init" /\ ParsingRaises(config_uri))
    => /\ infinity_uri.host = <<"1", "2", "7", ".", "0", ".", "0", ".", "1">>
       /\ infinity_uri.port = 23817
       /\ HasLevel("error")
       /\ last.raised = "none"
       /\ round = 0 /\ conn_pool = Unset /\ pools = <<>>

C14_Witness ==
    /\ pc = "init"
    /\ config_uri = <<"h", ":", "h">>
    /\ infinity_uri = DefaultAddress
    /\ HasLevel("error")

\* C15: when the remainder has no colon, the host is the remainder and the
\* port is 23817.
C15_HostOnly ==
    LET c == Remainder(config_uri) IN
    (pc = "init" /\ Colons(c) = {})
    => infinity_uri = [host |-> c, port |-> 23817]

C15_Witness ==
    /\ pc = "init"
    /\ config_uri = <<"h", ":", "/", "/", "h", "1", "/">>
    /\ infinity_uri = [host |-> <<"h", "1">>, port |-> 23817]

====
